---- MODULE Spec2Model ----
(***************************************************************************)
(* State-machine model of src/App.tsx (the CoSpend expense tracker): the   *)
(* React state of App, its event handlers, the receipt-analysis callback   *)
(* chain and the derived grouping of the expense list.                     *)
(*                                                                         *)
(* An expense is modelled by the two fields the handlers of App.tsx read:  *)
(* id and date.  item, amount, category, payer and createdAt are carried   *)
(* through by the code untouched and are left out.                         *)
(***************************************************************************)
EXTENDS Integers, Sequences, FiniteSets, TLC

VARIABLES
    expenses,            \* useState<Expense[]>             (line 22)
    settings,            \* useState<AppSettings>           (line 27), its currentUserId
    isAnalyzing,         \* useState(false)                 (line 32)
    draftExpense,        \* useState<ExpenseDraft | null>   (line 33)
    isModalOpen,         \* useState(false)                 (line 34)
    isSettingsOpen,      \* useState(false)                 (line 35)
    localStorage,        \* the two keys written by the useEffect hooks (lines 40-46)
    pickerOpen,          \* the browser's file dialog opened by fileInputRef.current.click();
                         \* it is modal: while it is open no click reaches the page
    reading,             \* FileReader reads started and not yet ended (line 64)
    analyzing,           \* analyzeReceipt calls awaiting their answer (line 59)
    unhandledRejection,  \* a rejected analyzeReceipt call left the onloadend promise rejected
    alert,               \* the last alert() shown
    now                  \* Date.now()

vars == <<expenses, settings, isAnalyzing, draftExpense, isModalOpen, isSettingsOpen,
          localStorage, pickerOpen, reading, analyzing, unhandledRejection, alert, now>>

----------------------------------------------------------------------------
(* Bounds of the model *)

\* the store is not grown beyond this many records
MaxLen == 4
\* an imported array holds at most this many elements
MaxImport == 2
\* the clock advances at most this many times
MaxTicks == 1
\* cap on file reads / analysis calls in flight
MaxRequests == 2
\* Date.now() when the page loads
PageLoadTime == 3

----------------------------------------------------------------------------
(* Values *)

\* the value of a property that is absent (e.id of {} or of a number)
Undefined == "<undefined>"

\* dates in the form new Date().toISOString().split('T')[0] produces, in calendar order
CalendarDays == <<"2024-01-09", "2024-01-10", "2024-01-11">>

ValidDates == {CalendarDays[i] : i \in 1..Len(CalendarDays)}

\* new Date(date).getTime() is NaN
IsInvalidDate(date) == date \notin ValidDates

\* new Date(date).getTime() of a valid date, in days (a positive multiple of the
\* millisecond value, so differences keep their sign)
GetTime(date) == CHOOSE i \in 1..Len(CalendarDays) : CalendarDays[i] = date

\* JSON null as an array element
JsNull == [id |-> "<null>", date |-> "<null>"]

NoDraft == [isNull |-> TRUE, date |-> Undefined]

Draft(date) == [isNull |-> FALSE, date |-> date]

NoAlert == [kind |-> "none", count |-> 0]

Alert(kind, count) == [kind |-> kind, count |-> count]

UserIDs == {"A", "B"}

\* new Date().toISOString().split('T')[0]: the session stays within one day
Today == CalendarDays[2]

INITIAL_EXPENSES ==
    << [id |-> "1", date |-> Today], [id |-> "2", date |-> Today] >>

DEFAULT_SETTINGS == "A"

----------------------------------------------------------------------------
(* Array.prototype.sort with the comparator of lines 83 and 96 *)

\* (a, b) => new Date(b.date).getTime() - new Date(a.date).getTime(), after the
\* sort's own rule that a NaN result counts as +0
SortCompare(a, b) ==
    IF IsInvalidDate(a.date) \/ IsInvalidDate(b.date)
    THEN 0
    ELSE GetTime(b.date) - GetTime(a.date)

\* The comparator orders the elements of list consistently: it does unless some
\* element has no valid date (it then ties with every element) while two others
\* compare unequal.
ConsistentComparator(list) ==
    \/ \A i \in DOMAIN list : ~IsInvalidDate(list[i].date)
    \/ \A i, j \in DOMAIN list : SortCompare(list[i], list[j]) = 0

RECURSIVE InsertBeforeTies(_, _)
\* an unstable insertion: e overtakes the elements it ties with
InsertBeforeTies(e, sorted) ==
    IF sorted = <<>> THEN <<e>>
    ELSE IF SortCompare(Head(sorted), e) < 0
         THEN <<Head(sorted)>> \o InsertBeforeTies(e, Tail(sorted))
         ELSE <<e>> \o sorted

RECURSIVE InsertStable(_, _)
\* e placed behind every element of sorted that does not have to follow it
InsertStable(e, sorted) ==
    IF sorted = <<>> THEN <<e>>
    ELSE IF SortCompare(Head(sorted), e) <= 0
         THEN <<Head(sorted)>> \o InsertStable(e, Tail(sorted))
         ELSE <<e>> \o sorted

RECURSIVE StableSort(_)
\* the one order a stable sort gives under a consistent comparator
StableSort(list) ==
    IF list = <<>> THEN <<>>
    ELSE InsertStable(list[Len(list)], StableSort(SubSeq(list, 1, Len(list) - 1)))

PermutationsOf(list) ==
    {[i \in DOMAIN list |-> list[p[i]]] : p \in Permutations(DOMAIN list)}

\* The results list.sort(comparator) can have: the stable order, or, under an
\* inconsistent comparator, an implementation-defined order.
ArraySort(list) ==
    IF ConsistentComparator(list) THEN {StableSort(list)} ELSE PermutationsOf(list)

----------------------------------------------------------------------------
(* handleImportData, lines 88-104 *)

\* ids an imported record may carry: one of INITIAL_EXPENSES, and one equal to
\* the Date.now().toString() of a save at page-load time
ImportIds == {"1", ToString(PageLoadTime)}

\* the date an imported record carries: one before today, so that the sort has
\* to move the records prepended
ImportDates == {CalendarDays[1]}

ExpenseRecords == [id : ImportIds, date : ImportDates]

\* array elements that are not expenses: null, and a value without id and date
\* ({} or a number)
NonExpenseElements == {JsNull, [id |-> Undefined, date |-> Undefined]}

SeqsUpTo(S, n) == UNION {[1..k -> S] : k \in 0..n}

GarbageText == [kind |-> "garbage", items |-> <<>>]

NonArrayText == [kind |-> "nonArray", items |-> <<>>]

ArrayText(items) == [kind |-> "array", items |-> items]

\* the texts of [ ... ] whose elements are all expense records
ExpenseArrayTexts == {ArrayText(s) : s \in SeqsUpTo(ExpenseRecords, MaxImport)}

\* the texts of [ ... ] holding at least one element that is no expense record
OtherArrayTexts ==
    {ArrayText(s) : s \in SeqsUpTo(ExpenseRecords \cup NonExpenseElements, MaxImport)}
        \ ExpenseArrayTexts

\* JSON.parse(jsonString): throws a SyntaxError, or yields a value
JSONParse(jsonString) ==
    [threw   |-> jsonString.kind = "garbage",
     isArray |-> jsonString.kind = "array",
     value   |-> jsonString.items]

\* new Set(expenses.map(e => e.id))
CurrentIds(store) == {store[i].id : i \in DOMAIN store}

\* e.id of a null element throws a TypeError inside the filter callback
FilterThrows(importedData) == \E i \in DOMAIN importedData : importedData[i] = JsNull

\* the filter left out: every candidate is admitted
NewItemsUnfiltered(importedData, store) == importedData

\* importedData.filter(e => !currentIds.has(e.id))
NewItems(importedData, store) ==
    SelectSeq(importedData, LAMBDA e : e.id \notin CurrentIds(store))

\* [...newItems, ...prev].sort(...)
MergeItems(newItems, prev) == ArraySort(newItems \o prev)

handleImportData(jsonString) ==
    /\ isSettingsOpen
    /\ ~pickerOpen
    /\ UNCHANGED <<settings, isAnalyzing, draftExpense, isModalOpen, isSettingsOpen,
                   pickerOpen, reading, analyzing, unhandledRejection, now>>
    /\ LET importedData == JSONParse(jsonString)
       IN  IF importedData.threw \/ (importedData.isArray /\ FilterThrows(importedData.value))
           THEN /\ alert' = Alert("parseFailed", 0)
                /\ UNCHANGED <<expenses, localStorage>>
           ELSE IF ~importedData.isArray
           THEN /\ alert' = Alert("invalidFormat", 0)
                /\ UNCHANGED <<expenses, localStorage>>
           ELSE LET newItems == NewItems(importedData.value, expenses)
                IN  /\ Len(expenses) + Len(newItems) <= MaxLen
                    /\ alert' = Alert("imported", Len(newItems))
                    /\ \E sorted \in MergeItems(newItems, expenses) :
                          /\ expenses' = sorted
                          /\ localStorage' = [localStorage EXCEPT !.expenses = sorted]

----------------------------------------------------------------------------
(* handleSaveExpense, lines 76-86; handleManualAdd, lines 118-126; the modals *)

\* { id: Date.now().toString(), ...finalData, createdAt: Date.now() }
NewExpense(finalData, time) == [id |-> ToString(time), date |-> finalData.date]

\* the new expense prepended and the sort left out
AddExpenseUnsorted(store, newExpense) == {<<newExpense>> \o store}

\* [newExpense, ...prev].sort(...)
AddExpense(store, newExpense) == ArraySort(<<newExpense>> \o store)

handleSaveExpense(finalData) ==
    /\ isModalOpen
    /\ ~pickerOpen
    /\ Len(expenses) < MaxLen
    /\ \E sorted \in AddExpense(expenses, NewExpense(finalData, now)) :
          /\ expenses' = sorted
          /\ localStorage' = [localStorage EXCEPT !.expenses = sorted]
    /\ isModalOpen' = FALSE
    /\ draftExpense' = NoDraft
    /\ UNCHANGED <<settings, isAnalyzing, isSettingsOpen, pickerOpen, reading, analyzing,
                   unhandledRejection, alert, now>>

\* a manual add that stores the empty draft at once
handleManualAddStoring ==
    /\ ~pickerOpen
    /\ Len(expenses) < MaxLen
    /\ draftExpense' = Draft(Today)
    /\ isModalOpen' = TRUE
    /\ expenses' = <<[id |-> ToString(now), date |-> Today]>> \o expenses
    /\ localStorage' = [localStorage EXCEPT !.expenses = expenses']
    /\ UNCHANGED <<settings, isAnalyzing, isSettingsOpen, pickerOpen,
                   reading, analyzing, unhandledRejection, alert, now>>

handleManualAdd ==
    /\ ~pickerOpen
    /\ draftExpense' = Draft(Today)
    /\ isModalOpen' = TRUE
    /\ UNCHANGED <<expenses, settings, isAnalyzing, isSettingsOpen, localStorage, pickerOpen,
                   reading, analyzing, unhandledRejection, alert, now>>

\* EditExpenseModal onClose={() => setIsModalOpen(false)}
closeEditModal ==
    /\ isModalOpen
    /\ ~pickerOpen
    /\ isModalOpen' = FALSE
    /\ UNCHANGED <<expenses, settings, isAnalyzing, draftExpense, isSettingsOpen, localStorage,
                   pickerOpen, reading, analyzing, unhandledRejection, alert, now>>

\* onClick={() => setIsSettingsOpen(true)}
openSettings ==
    /\ ~pickerOpen
    /\ isSettingsOpen' = TRUE
    /\ UNCHANGED <<expenses, settings, isAnalyzing, draftExpense, isModalOpen, localStorage,
                   pickerOpen, reading, analyzing, unhandledRejection, alert, now>>

\* SettingsModal onClose={() => setIsSettingsOpen(false)}
closeSettings ==
    /\ isSettingsOpen
    /\ ~pickerOpen
    /\ isSettingsOpen' = FALSE
    /\ UNCHANGED <<expenses, settings, isAnalyzing, draftExpense, isModalOpen, localStorage,
                   pickerOpen, reading, analyzing, unhandledRejection, alert, now>>

\* SettingsModal onSaveSettings={setSettings}, and the useEffect of lines 44-46
saveSettings(currentUserId) ==
    /\ isSettingsOpen
    /\ ~pickerOpen
    /\ settings' = currentUserId
    /\ localStorage' = [localStorage EXCEPT !.appSettings = currentUserId]
    /\ UNCHANGED <<expenses, isAnalyzing, draftExpense, isModalOpen, isSettingsOpen,
                   pickerOpen, reading, analyzing, unhandledRejection, alert, now>>

----------------------------------------------------------------------------
(* The receipt scan: the two scan buttons and handleFileChange, lines 49-73 *)

\* the scan buttons without disabled={isAnalyzing}
clickScanReceiptNeverDisabled ==
    /\ ~pickerOpen
    /\ pickerOpen' = TRUE
    /\ UNCHANGED <<expenses, settings, isAnalyzing, draftExpense, isModalOpen, isSettingsOpen,
                   localStorage, reading, analyzing, unhandledRejection, alert, now>>

\* <button onClick={() => fileInputRef.current?.click()} disabled={isAnalyzing}>
clickScanReceipt ==
    /\ ~isAnalyzing
    /\ ~pickerOpen
    /\ pickerOpen' = TRUE
    /\ UNCHANGED <<expenses, settings, isAnalyzing, draftExpense, isModalOpen, isSettingsOpen,
                   localStorage, reading, analyzing, unhandledRejection, alert, now>>

\* The dialog closes.  Without a file the handler returns at once (line 51); with
\* one it sets the busy flag and starts the read.  new FileReader() and
\* readAsDataURL(file) do not throw, so the catch of lines 65-68 is not entered.
handleFileChange(hasFile) ==
    /\ pickerOpen
    /\ pickerOpen' = FALSE
    /\ IF hasFile
       THEN /\ reading + analyzing < MaxRequests
            /\ isAnalyzing' = TRUE
            /\ reading' = reading + 1
       ELSE UNCHANGED <<isAnalyzing, reading>>
    /\ UNCHANGED <<expenses, settings, draftExpense, isModalOpen, isSettingsOpen,
                   localStorage, analyzing, unhandledRejection, alert, now>>

\* reader.onloadend up to the await: analyzeReceipt(base64String) is called
readerOnLoadEnd ==
    /\ reading > 0
    /\ reading' = reading - 1
    /\ analyzing' = analyzing + 1
    /\ UNCHANGED <<expenses, settings, isAnalyzing, draftExpense, isModalOpen, isSettingsOpen,
                   localStorage, pickerOpen, unhandledRejection, alert, now>>

\* the values analyzeReceipt may resolve to: the receipt's date, or none extracted
AnalysisResults == {Draft(CalendarDays[1]), Draft(Undefined)}

\* the await of line 59 returns: lines 60-62
analyzeReceiptResolved(result) ==
    /\ analyzing > 0
    /\ analyzing' = analyzing - 1
    /\ draftExpense' = result
    /\ isModalOpen' = TRUE
    /\ isAnalyzing' = FALSE
    /\ UNCHANGED <<expenses, settings, isSettingsOpen, localStorage, pickerOpen, reading,
                   unhandledRejection, alert, now>>

\* the await of line 59 throws inside the async onloadend callback: lines 60-62
\* are skipped, and the try of line 55, which ended when readAsDataURL returned,
\* does not catch it
analyzeReceiptRejected ==
    /\ analyzing > 0
    /\ analyzing' = analyzing - 1
    /\ unhandledRejection' = TRUE
    /\ UNCHANGED <<expenses, settings, isAnalyzing, draftExpense, isModalOpen, isSettingsOpen,
                   localStorage, pickerOpen, reading, alert, now>>

\* time passes
Tick ==
    /\ now < PageLoadTime + MaxTicks
    /\ now' = now + 1
    /\ UNCHANGED <<expenses, settings, isAnalyzing, draftExpense, isModalOpen, isSettingsOpen,
                   localStorage, pickerOpen, reading, analyzing, unhandledRejection, alert>>

----------------------------------------------------------------------------
(* groupedExpenses and sortedDates, lines 107-116: derived at every render *)

\* An object with string keys: its keys in insertion order (the order
\* Object.keys gives) and the array held under each key.
EmptyGroups == [keys |-> <<>>, buckets |-> <<>>]

\* a reducer that assigns [expense] instead of pushing
GroupStepOverwriting(groups, expense) ==
    [keys    |-> IF expense.date \in DOMAIN groups.buckets
                 THEN groups.keys ELSE Append(groups.keys, expense.date),
     buckets |-> (expense.date :> <<expense>>) @@ groups.buckets]

\* the reducer of lines 107-114
GroupStep(groups, expense) ==
    LET date == expense.date
        made == IF date \in DOMAIN groups.buckets
                THEN groups
                ELSE [keys    |-> Append(groups.keys, date),
                      buckets |-> (date :> <<>>) @@ groups.buckets]
    IN  [made EXCEPT !.buckets[date] = Append(@, expense)]

RECURSIVE Reduce(_, _)
\* list.reduce(GroupStep, groups)
Reduce(list, groups) ==
    IF list = <<>> THEN groups
    ELSE Reduce(Tail(list), GroupStep(groups, Head(list)))

groupedExpenses(list) == Reduce(list, EmptyGroups)

\* Object.keys(groupedExpenses).sort((a, b) => new Date(b).getTime() - new Date(a).getTime())
sortedDates(groups) ==
    {[i \in DOMAIN sorted |-> sorted[i].date] :
        sorted \in ArraySort([i \in DOMAIN groups.keys |-> [date |-> groups.keys[i]]])}

----------------------------------------------------------------------------
(* Specifications *)

InitUI ==
    /\ settings = DEFAULT_SETTINGS
    /\ isAnalyzing = FALSE
    /\ draftExpense = NoDraft
    /\ isModalOpen = FALSE
    /\ isSettingsOpen = FALSE
    /\ localStorage = [expenses |-> expenses, appSettings |-> DEFAULT_SETTINGS]
    /\ pickerOpen = FALSE
    /\ reading = 0
    /\ analyzing = 0
    /\ unhandledRejection = FALSE
    /\ alert = NoAlert
    /\ now = PageLoadTime

\* first load: nothing saved, the store is INITIAL_EXPENSES
Init ==
    /\ expenses = INITIAL_EXPENSES
    /\ InitUI

Next ==
    \/ \E jsonString \in {GarbageText, NonArrayText} \cup ExpenseArrayTexts :
          handleImportData(jsonString)
    \/ \E date \in ValidDates : handleSaveExpense([date |-> date])
    \/ handleManualAdd
    \/ closeEditModal
    \/ openSettings
    \/ closeSettings
    \/ \E currentUserId \in UserIDs : saveSettings(currentUserId)
    \/ clickScanReceipt
    \/ \E hasFile \in BOOLEAN : handleFileChange(hasFile)
    \/ readerOnLoadEnd
    \/ \E result \in AnalysisResults : analyzeReceiptResolved(result)
    \/ analyzeReceiptRejected
    \/ Tick

Spec == Init /\ [][Next]_vars

\* The event loop runs a callback that is due: the read ends, and the analysis
\* call is answered (resolved or rejected).  What the user does is not forced.
analyzeReceiptSettles ==
    \/ \E result \in AnalysisResults : analyzeReceiptResolved(result)
    \/ analyzeReceiptRejected

FairSpec == Spec /\ WF_vars(readerOnLoadEnd) /\ WF_vars(analyzeReceiptSettles)

\* The store operations offered every array text, also those holding elements
\* that are not expense records.
RawNext ==
    \/ \E jsonString \in {GarbageText, NonArrayText} \cup ExpenseArrayTexts :
          handleImportData(jsonString)
    \/ \E jsonString \in OtherArrayTexts : handleImportData(jsonString)
    \/ \E date \in ValidDates : handleSaveExpense([date |-> date])
    \/ handleManualAdd
    \/ closeEditModal
    \/ openSettings
    \/ closeSettings

RawSpec == Init /\ [][RawNext]_vars

\* The store operations applied to every stored collection, in any order and
\* with identifiers repeated, as JSON.parse(saved) of line 24 may return it.
SavedRecords ==
    { [id |-> "1", date |-> CalendarDays[1]],
      [id |-> "1", date |-> CalendarDays[2]],
      [id |-> "2", date |-> CalendarDays[2]] }

StoreInit ==
    /\ expenses \in SeqsUpTo(SavedRecords, MaxLen - 1)
    /\ InitUI

StoreNext ==
    \/ \E jsonString \in {GarbageText, NonArrayText} \cup ExpenseArrayTexts :
          handleImportData(jsonString)
    \/ \E date \in ValidDates : handleSaveExpense([date |-> date])
    \/ handleManualAdd
    \/ openSettings

StoreSpec == StoreInit /\ [][StoreNext]_vars

----------------------------------------------------------------------------
(* Helpers of the properties *)

Range(list) == {list[i] : i \in DOMAIN list}

Occurrences(x, list) == Cardinality({i \in DOMAIN list : list[i] = x})

\* the store operations, as steps
SaveStep == \E date \in ValidDates : handleSaveExpense([date |-> date])

ImportStep(texts) == \E jsonString \in texts : handleImportData(jsonString)

\* descending by date: no element is followed by one with a later date
SortedByDateDescending(list) ==
    \A i \in 1..(Len(list) - 1) :
        /\ ~IsInvalidDate(list[i].date)
        /\ ~IsInvalidDate(list[i + 1].date)
        /\ GetTime(list[i].date) >= GetTime(list[i + 1].date)

RECURSIVE Flatten(_, _)
\* the buckets concatenated in the order of dates
Flatten(dates, buckets) ==
    IF dates = <<>> THEN <<>>
    ELSE buckets[Head(dates)] \o Flatten(Tail(dates), buckets)

----------------------------------------------------------------------------
(* The properties *)

\* C1: in every reachable state no two expenses of the collection have the same
\* identifier (a save assigns an unused identifier, an import admits no two
\* records with one identifier).
C1_UniqueIdentifiers ==
    \A i, j \in DOMAIN expenses : i # j => expenses[i].id # expenses[j].id

\* C2: when the analysis call fails, the busy state is eventually cleared, no
\* draft is created and the edit modal is not opened.
C2_FailureClearsBusy ==
    /\ [][analyzeReceiptRejected => UNCHANGED <<draftExpense, isModalOpen>>]_vars
    /\ [](unhandledRejection => <>(~isAnalyzing))

\* C3: an import of an array of expense records admits exactly the candidates
\* whose identifier is not in the store: the count reported is the number of such
\* candidates, the collection grows by that count, and it holds what was stored
\* plus the admitted candidates, each as often as before.
C3_ImportAdmitsExactlyNewIds ==
    [][\A jsonString \in ExpenseArrayTexts :
          handleImportData(jsonString) =>
              LET candidates == jsonString.items
                  admitted   == {i \in DOMAIN candidates :
                                    candidates[i].id \notin CurrentIds(expenses)}
              IN  /\ alert' = Alert("imported", Cardinality(admitted))
                  /\ Len(expenses') = Len(expenses) + Cardinality(admitted)
                  /\ \A e \in Range(expenses') \cup Range(expenses) \cup Range(candidates) :
                        Occurrences(e, expenses') =
                            Occurrences(e, expenses)
                                + Cardinality({i \in admitted : candidates[i] = e})
    ]_vars

C3_Witness ==
    /\ alert = Alert("imported", 1)
    /\ Len(expenses) = 3
    /\ \E i, j \in DOMAIN expenses :
          expenses[i].id = "1" /\ expenses[j].id = ToString(PageLoadTime)

\* C4: right after an import of a candidate list, importing the same list again
\* admits zero records and leaves the collection the same, in the same order.
C4_ImportIdempotent ==
    [][\A jsonString \in ExpenseArrayTexts :
          handleImportData(jsonString) =>
              LET again == NewItems(jsonString.items, expenses')
              IN  /\ Len(again) = 0
                  /\ MergeItems(again, expenses') = {expenses'}
    ]_vars

C4_Witness ==
    /\ alert = Alert("imported", 0)
    /\ Len(expenses) = MaxLen
    /\ \E i, j \in DOMAIN expenses :
          i # j /\ expenses[i].date = expenses[j].date /\ expenses[i].id # expenses[j].id

\* C5: an import of a text that does not parse, of a value that is no array, or of
\* an array holding elements that are not expense records reports an error and
\* leaves the collection as it was.
C5_BadImportRejected ==
    [][\A jsonString \in {GarbageText, NonArrayText} \cup OtherArrayTexts :
          handleImportData(jsonString) =>
              /\ alert'.kind \in {"parseFailed", "invalidFormat"}
              /\ expenses' = expenses
    ]_vars

\* C6: only a save and a successful import change the collection: a manual add,
\* a completed analysis, closing the modal, opening, closing and saving the
\* settings leave it unchanged.
C6_OnlySaveAndImportWrite ==
    [][expenses' # expenses =>
          \/ SaveStep
          \/ ImportStep(ExpenseArrayTexts) /\ alert'.kind = "imported"
    ]_vars

C6_Witness ==
    /\ expenses = INITIAL_EXPENSES
    /\ draftExpense = Draft(CalendarDays[1])
    /\ ~isModalOpen
    /\ isSettingsOpen
    /\ settings = "B"

\* C7: closing the edit modal without saving discards the draft: afterwards
\* draftExpense is null and the modal is closed, as after a save.
C7_CloseDiscardsDraft ==
    [][closeEditModal => (draftExpense' = NoDraft /\ ~isModalOpen')]_vars

C9_OneAnalysisAtATime ==
    /\ reading + analyzing <= 1
    /\ reading + analyzing = 1 => (isAnalyzing /\ ~ENABLED clickScanReceipt)

C9_Witness ==
    /\ analyzing = 1
    /\ isModalOpen
    /\ isSettingsOpen

\* C10: the grouping loses and duplicates no record and keeps order: the bucket
\* of a date holds exactly the expenses of that date in their order in the
\* collection, the dates are the distinct dates, each once, latest first, and the
\* buckets flattened in that order hold as many records as the collection.
C10_GroupingKeepsEveryRecord ==
    LET groups == groupedExpenses(expenses)
        dates  == {expenses[i].date : i \in DOMAIN expenses}
    IN  /\ DOMAIN groups.buckets = dates
        /\ \A d \in dates :
              groups.buckets[d] = SelectSeq(expenses, LAMBDA e : e.date = d)
        /\ \A order \in sortedDates(groups) :
              /\ Len(order) = Cardinality(dates)
              /\ Range(order) = dates
              /\ \A i \in 1..(Len(order) - 1) : GetTime(order[i]) > GetTime(order[i + 1])
              /\ Len(Flatten(order, groups.buckets)) = Len(expenses)
              /\ \A e \in Range(expenses) :
                    Occurrences(e, Flatten(order, groups.buckets)) = Occurrences(e, expenses)

C10_Witness ==
    /\ Len(expenses) >= 3
    /\ \E i, j, k \in DOMAIN expenses :
          /\ i < j /\ j < k
          /\ expenses[i].date = expenses[k].date
          /\ expenses[i].date # expenses[j].date
          /\ expenses[i] # expenses[k]

====
